---- MODULE Spec2Model ----
(***************************************************************************)
(* The SCPI parameter encoder of gekkio-scpi (src/src/param.rs).           *)
(*                                                                         *)
(* One call `value.encode(&mut w)` is modelled as a small-step machine:    *)
(* a stack of activations of `encode`, a return register, and the byte     *)
(* sink `w` the caller lends to the call.  A scalar encoder runs as one    *)
(* step (all of its write_all calls, cut short by `?` at the first         *)
(* failure); a tuple encoder runs its body one statement at a time.        *)
(*                                                                         *)
(* Bytes are numbers 0..255, characters are Unicode scalar values.  A byte *)
(* span is a sequence of runs <<byte, count>>, so that a block of 10^9     *)
(* bytes is a value the checker can hold; a literal such as b"DEF" is the  *)
(* span of three runs of count 1.                                          *)
(***************************************************************************)
EXTENDS Integers, Sequences, FiniteSets, TLC

VARIABLES
    val,      \* the value `self` of the outermost encode call
    debug,    \* cfg!(debug_assertions): whether debug_assert! is compiled in
    failAt,   \* the sink fails its failAt-th write_all call (0: never)
    sinkErr,  \* the io::Error the sink returns when it fails
    w,        \* the sink: bytes accepted, calls made, call that failed
    stack,    \* activations of encode, innermost last
    ret,      \* the io::Result<()> just returned by the innermost call
    prev      \* value and output of the caller's previous, completed call

vars == <<val, debug, failAt, sinkErr, w, stack, ret, prev>>

\* ------------------------------------------------------------------ bounds

MaxStrLen == 3
MaxFail == 5

\* ------------------------------------------------------------ io::Result

None == [st |-> "None", e |-> ""]
Ok == [st |-> "Ok", e |-> ""]
Err(e) == [st |-> "Err", e |-> e]
Panic == [st |-> "Panic", e |-> ""]

\* -------------------------------------------------------------- byte spans

Lit(bytes) == [i \in 1..Len(bytes) |-> <<bytes[i], 1>>]

RECURSIVE SpanLen(_)
SpanLen(span) ==
    IF span = <<>> THEN 0 ELSE Head(span)[2] + SpanLen(Tail(span))

\* ------------------------------------------------------------------- sink

NewSink == [out |-> <<>>, n |-> 0, errAt |-> 0]

\* w.write_all(span): an empty span returns Ok without calling the sink;
\* otherwise the sink takes the whole span or fails the call.
WriteAll(s, span) ==
    IF span = <<>> THEN [s |-> s, r |-> Ok]
    ELSE IF s.n + 1 = failAt
         THEN [s |-> [s EXCEPT !.n = @ + 1,
                               !.errAt = IF @ = 0 THEN s.n + 1 ELSE @],
               r |-> Err(sinkErr)]
         ELSE [s |-> [s EXCEPT !.n = @ + 1, !.out = @ \o span], r |-> Ok]

\* as Propagates, with the `?` left out: a result that is not Ok is dropped
PropagatesMutIgnored(r, last) == last

\* `expr?` returns r from the enclosing function when r is not Ok; the
\* function's last expression returns r whatever it is
Propagates(r, last) == r.st # "Ok" \/ last

\* stmt?; stmt?; ... ; stmt   -- the first result that is not Ok is returned
RECURSIVE TryEach(_, _)
TryEach(s, spans) ==
    IF spans = <<>> THEN [s |-> s, r |-> Ok]
    ELSE LET r == WriteAll(s, Head(spans))
         IN  IF Propagates(r.r, Len(spans) = 1) THEN r
             ELSE TryEach(r.s, Tail(spans))

\* ------------------------------------------------------------- characters

is_ascii(ch) == ch < 128
is_ascii_control(ch) == ch < 32 \/ ch = 127
is_ascii_whitespace(ch) == ch \in {32, 9, 10, 12, 13}

Permitted(ch) ==
    is_ascii(ch) /\ ~(is_ascii_control(ch) /\ ~is_ascii_whitespace(ch))

\* the UTF-8 bytes of one char (chars below U+10000)
Utf8(ch) ==
    IF ch < 128 THEN <<ch>>
    ELSE IF ch < 2048 THEN <<192 + (ch \div 64), 128 + (ch % 64)>>
    ELSE <<224 + (ch \div 4096), 128 + ((ch \div 64) % 64), 128 + (ch % 64)>>

RECURSIVE as_bytes(_)
as_bytes(str) ==
    IF str = <<>> THEN <<>> ELSE Utf8(Head(str)) \o as_bytes(Tail(str))

\* ---------------------------------------------------------- fmt::Display

RECURSIVE DisplayNat(_)
DisplayNat(n) ==
    IF n < 10 THEN <<48 + n>> ELSE DisplayNat(n \div 10) \o <<48 + (n % 10)>>

DisplayInt(i) == IF i < 0 THEN <<45>> \o DisplayNat(-i) ELSE DisplayNat(i)

\* ----------------------------------------------------------------- values

Discrete(str) == [t |-> "Discrete", s |-> str]
Str(str) == [t |-> "Str", s |-> str]
Block(span) == [t |-> "Block", runs |-> span]
DefaultValue == [t |-> "DefaultValue"]
Limit(l) == [t |-> "Limit", lim |-> l]
Step(d) == [t |-> "Step", dir |-> d]
Bool(b) == [t |-> "Bool", b |-> b]
ScpiInt(i) == [t |-> "ScpiInt", i |-> i]
Unit == [t |-> "Unit", u |-> 0]
Tuple(elems) == [t |-> "Tuple", es |-> elems]

\* An f32 is held as its shortest decimal form that reads back as the same
\* f32: sign, digits d1 d2 ... (d1 # 0 unless the value is zero) and decimal
\* exponent, the value being d1.d2... * 10^exp.  Distinct finite f32 have
\* distinct forms, ordered as the values are.
Finite(neg, digs, exp) == [t |-> "F32", k |-> "fin", neg |-> neg, digs |-> digs, exp |-> exp]
NaN == [t |-> "F32", k |-> "nan", neg |-> FALSE, digs |-> <<>>, exp |-> 0]
Infinity(neg) == [t |-> "F32", k |-> "inf", neg |-> neg, digs |-> <<>>, exp |-> 0]

\* ---------------------------------------------------------------- Discrete

EncodeDiscrete(self, s) ==
    IF debug /\ ~(\A i \in 1..Len(self.s) : Permitted(self.s[i]))
    THEN [s |-> s, r |-> Panic]
    ELSE WriteAll(s, Lit(as_bytes(self.s)))

\* -------------------------------------------------------------------- &str

\* as StrChunk, without the arm that doubles a double-quote
StrChunkMutNoEscape(ch) ==
    IF Permitted(ch) THEN Lit(<<ch % 256>>) ELSE Lit(<<42>>)

\* the match arm taken for one char of the string
StrChunk(ch) ==
    IF ch = 34 THEN Lit(<<34, 34>>)
    ELSE IF Permitted(ch) THEN Lit(<<ch % 256>>)
    ELSE Lit(<<42>>)

EncodeStr(self, s) ==
    TryEach(s, <<Lit(<<34>>)>>
               \o [i \in 1..Len(self.s) |-> StrChunk(self.s[i])]
               \o <<Lit(<<34>>)>>)

\* ------------------------------------------------------------------- Block

BufLen == 64

\* as BlockHeader, with the length itself taken for the digit count
BlockHeaderMutLenAsCount(len) ==
    LET text == DisplayNat(len)
    IN  <<Lit(<<(48 + len) % 256>>), Lit(text)>>

\* the digit-count byte and the length field: `remaining` is what is left
\* of the 64-byte buffer after write!(buf_slice, "{}", len)
BlockHeader(len) ==
    LET text == DisplayNat(len)
        remaining == BufLen - Len(text)
        digits == BufLen - remaining
    IN  <<Lit(<<(48 + digits) % 256>>), Lit(SubSeq(text, 1, digits))>>

EncodeBlock(self, s) ==
    LET len == SpanLen(self.runs)
        r1 == WriteAll(s, Lit(<<35>>))
    IN  IF Propagates(r1.r, FALSE) THEN r1
        ELSE IF Len(DisplayNat(len)) > BufLen
             THEN [s |-> r1.s, r |-> Err("WriteZero")]
             ELSE TryEach(r1.s, BlockHeader(len) \o <<self.runs>>)

\* --------------------------------------------------------------------- f32

Dig(digs, i) == IF i <= Len(digs) THEN digs[i] ELSE 0

\* d1.d2... > e1.e2... for two digit strings
DigitsGt(a, b) ==
    \E i \in 1..(Len(a) + Len(b)) :
        /\ Dig(a, i) > Dig(b, i)
        /\ \A j \in 1..(i - 1) : Dig(a, j) = Dig(b, j)

\* |x| > 9.9E37 for a finite or infinite x (the f32 nearest 9.9E37 has the
\* shortest form 9.9E37)
MagnitudeGtLimit(x) ==
    \/ x.k = "inf"
    \/ /\ x.k = "fin"
       /\ x.digs # <<0>>
       /\ \/ x.exp > 37
          \/ x.exp = 37 /\ DigitsGt(x.digs, <<9, 9>>)

\* self > 9.9E37 || self < -9.9E37: false of NaN, as every comparison is
OutOfRange(x) == x.k # "nan" /\ MagnitudeGtLimit(x)

\* format!("{:E}", x) of a finite x
UpperExp(x) ==
    (IF x.neg THEN <<45>> ELSE <<>>)
    \o <<48 + x.digs[1]>>
    \o (IF Len(x.digs) > 1
        THEN <<46>> \o [i \in 1..(Len(x.digs) - 1) |-> 48 + x.digs[i + 1]]
        ELSE <<>>)
    \o <<69>>
    \o DisplayInt(x.exp)

EncodeF32(self, s) ==
    IF debug /\ OutOfRange(self) THEN [s |-> s, r |-> Panic]
    ELSE IF self.k = "fin" THEN WriteAll(s, Lit(UpperExp(self)))
    ELSE IF self.k = "nan" THEN WriteAll(s, Lit(<<78, 65, 78>>))
    ELSE IF ~self.neg THEN WriteAll(s, Lit(<<73, 78, 70>>))
    ELSE WriteAll(s, Lit(<<78, 73, 78, 70>>))

\* ---------------------------------------------------- the other scalars

EncodeDefaultValue(self, s) == WriteAll(s, Lit(<<68, 69, 70>>))

EncodeLimit(self, s) ==
    WriteAll(s, IF self.lim = "Min" THEN Lit(<<77, 73, 78>>)
                ELSE Lit(<<77, 65, 88>>))

EncodeStep(self, s) ==
    WriteAll(s, IF self.dir = "Up" THEN Lit(<<85, 80>>)
                ELSE Lit(<<68, 79, 87, 78>>))

EncodeBool(self, s) ==
    WriteAll(s, IF self.b THEN Lit(<<49>>) ELSE Lit(<<48>>))

\* impl<T: ScpiDisplay> Parameter for T: the integer types
EncodeScpiDisplay(self, s) == WriteAll(s, Lit(DisplayInt(self.i)))

EncodeUnit(self, s) == [s |-> s, r |-> Ok]

\* ------------------------------------------------------------------ tuples

\* The statements of a tuple's encode, in order: k > 0 is
\* `self.<k-1>.encode(w)`, 0 is `w.write_all(b",")`.  Every statement but
\* the last carries `?`.
\* as Tuple2Body, with a comma after the last element too
Tuple2BodyMutTrailingComma == <<1, 0, 2, 0>>

Tuple2Body == <<1, 0, 2>>

\* as Tuple3Body, with the first two elements in the other order
Tuple3BodyMutSwapped == <<2, 0, 1, 0, 3>>

Tuple3Body == <<1, 0, 2, 0, 3>>

Tuple4Body == <<1, 0, 2, 0, 3, 0, 4>>

\* --------------------------------------------------------------- the calls

Frame(v) == [v |-> v, pc |-> 1, wait |-> FALSE]

Top == stack[Len(stack)]
Popped == SubSeq(stack, 1, Len(stack) - 1)
Advanced == [stack EXCEPT ![Len(stack)] = [@ EXCEPT !.pc = @ + 1, !.wait = FALSE]]

Running == stack # <<>>
Done == stack = <<>> /\ ret # None

\* a scalar's encode, r being what its body does to the sink and returns:
\* the whole body in one step
ScalarStep(type, r) ==
    /\ Running
    /\ Top.v.t = type
    /\ w' = r.s
    /\ ret' = r.r
    /\ stack' = Popped
    /\ UNCHANGED <<val, debug, failAt, sinkErr, prev>>

Discrete_encode == ScalarStep("Discrete", EncodeDiscrete(Top.v, w))
Str_encode == ScalarStep("Str", EncodeStr(Top.v, w))
Block_encode == ScalarStep("Block", EncodeBlock(Top.v, w))
F32_encode == ScalarStep("F32", EncodeF32(Top.v, w))
DefaultValue_encode == ScalarStep("DefaultValue", EncodeDefaultValue(Top.v, w))
Limit_encode == ScalarStep("Limit", EncodeLimit(Top.v, w))
Step_encode == ScalarStep("Step", EncodeStep(Top.v, w))
Bool_encode == ScalarStep("Bool", EncodeBool(Top.v, w))
ScpiDisplay_encode == ScalarStep("ScpiInt", EncodeScpiDisplay(Top.v, w))
Unit_encode == ScalarStep("Unit", EncodeUnit(Top.v, w))

\* a tuple's encode: one statement of its body per step
TupleStep(arity, body) ==
    /\ Running
    /\ Top.v.t = "Tuple"
    /\ Len(Top.v.es) = arity
    /\ LET op == body[Top.pc]
           last == Top.pc = Len(body)
       IN  \/ /\ ~Top.wait                         \* self.<k-1>.encode(w): call
              /\ op > 0
              /\ stack' = [stack EXCEPT ![Len(stack)].wait = TRUE]
                          \o <<Frame(Top.v.es[op])>>
              /\ UNCHANGED <<w, ret>>
           \/ /\ Top.wait                          \* ... and its return
              /\ IF Propagates(ret, last)
                 THEN stack' = Popped /\ ret' = ret
                 ELSE stack' = Advanced /\ ret' = None
              /\ w' = w
           \/ /\ ~Top.wait                         \* w.write_all(b",")
              /\ op = 0
              /\ LET r == WriteAll(w, Lit(<<44>>))
                 IN  /\ w' = r.s
                     /\ IF Propagates(r.r, last)
                        THEN stack' = Popped /\ ret' = r.r
                        ELSE stack' = Advanced /\ ret' = None
    /\ UNCHANGED <<val, debug, failAt, sinkErr, prev>>

Tuple2_encode == TupleStep(2, Tuple2Body)
Tuple3_encode == TupleStep(3, Tuple3Body)
Tuple4_encode == TupleStep(4, Tuple4Body)

\* ------------------------------------------------------------ the caller

SinkErrors == {"BrokenPipe", "StorageFull"}

NoPrev == [set |-> FALSE, val |-> Unit, out |-> <<>>]

\* The caller, after (a, b, c) has been encoded, encodes the same elements
\* grouped as ((a, b), c) or (a, (b, c)) into a fresh sink.
Regroup ==
    /\ Done
    /\ ret = Ok
    /\ ~prev.set
    /\ val.t = "Tuple"
    /\ Len(val.es) = 3
    /\ prev' = [set |-> TRUE, val |-> val, out |-> w.out]
    /\ \E v \in {Tuple(<<Tuple(<<val.es[1], val.es[2]>>), val.es[3]>>),
                 Tuple(<<val.es[1], Tuple(<<val.es[2], val.es[3]>>)>>)} :
           /\ val' = v
           /\ stack' = <<Frame(v)>>
    /\ w' = NewSink
    /\ ret' = None
    /\ failAt' \in 0..MaxFail
    /\ UNCHANGED <<debug, sinkErr>>

\* ----------------------------------------------------------------- inputs

Chars == {34, 97, 10, 7, 233}

Strings == UNION {[1..n -> Chars] : n \in 0..MaxStrLen}

Spans ==
    { <<>>,
      <<<<17, 1>>, <<34, 1>>, <<51, 1>>>>,
      <<<<0, 9>>>>,
      <<<<255, 10>>>>,
      <<<<1, 99>>, <<2, 1>>>>,
      <<<<48, 12345>>>>,
      <<<<0, 999999999>>>>,
      <<<<0, 999999998>>, <<7, 1>>>>,
      <<<<0, 1000000000>>>>,
      <<<<170, 2147483647>>>> }

Floats ==
    { NaN, Infinity(FALSE), Infinity(TRUE),
      Finite(FALSE, <<0>>, 0),
      Finite(FALSE, <<1, 2, 3, 4, 5, 6, 7>>, 11),
      Finite(TRUE, <<1, 2, 3, 4, 5, 6, 7>>, -11),
      Finite(TRUE, <<4, 2>>, 5),
      Finite(FALSE, <<9, 8, 9, 9, 9, 9, 9>>, 37),
      Finite(FALSE, <<9, 9>>, 37),
      Finite(TRUE, <<9, 9>>, 37),
      Finite(FALSE, <<9, 9, 0, 0, 0, 0, 1>>, 37),
      Finite(FALSE, <<1>>, 38),
      Finite(TRUE, <<1>>, 38),
      Finite(FALSE, <<3, 4, 0, 2, 8, 2, 3, 5>>, 38) }

Ints == {0, 7, -1, 255, -128, 65535}

Scalars ==
    {Discrete(str) : str \in Strings} \cup {Str(str) : str \in Strings}
    \cup {Block(span) : span \in Spans} \cup Floats
    \cup {DefaultValue, Unit}
    \cup {Limit(l) : l \in {"Min", "Max"}} \cup {Step(d) : d \in {"Up", "Down"}}
    \cup {Bool(b) : b \in BOOLEAN} \cup {ScpiInt(i) : i \in Ints}

Elems ==
    { DefaultValue, Unit, ScpiInt(-1), Str(<<97, 34>>),
      Block(<<<<17, 1>>, <<34, 1>>, <<51, 1>>>>), Discrete(<<233>>) }

Tuples == {Tuple(es) : es \in UNION {[1..n -> Elems] : n \in 2..4}}

Values == Scalars \cup Tuples

Init ==
    /\ val \in Values
    /\ debug \in BOOLEAN
    /\ failAt \in 0..MaxFail
    /\ sinkErr \in SinkErrors
    /\ w = NewSink
    /\ stack = <<Frame(val)>>
    /\ ret = None
    /\ prev = NoPrev

Next ==
    \/ Discrete_encode
    \/ Str_encode
    \/ Block_encode
    \/ F32_encode
    \/ DefaultValue_encode
    \/ Limit_encode
    \/ Step_encode
    \/ Bool_encode
    \/ ScpiDisplay_encode
    \/ Unit_encode
    \/ Tuple2_encode
    \/ Tuple3_encode
    \/ Tuple4_encode
    \/ Regroup

Spec == Init /\ [][Next]_vars

\* ================================================================== claims

AllPermitted(str) == \A i \in 1..Len(str) : Permitted(str[i])

\* where the output of char i of a string starts: after the opening quote
\* and one more place for every double-quote before it
Pos(str, i) == 1 + i + Cardinality({j \in 1..(i - 1) : str[j] = 34})

RECURSIVE Pow10(_)
Pow10(k) == IF k = 0 THEN 1 ELSE 10 * Pow10(k - 1)

\* the number a span of single ASCII digits reads as
RECURSIVE DecValue(_)
DecValue(field) ==
    IF field = <<>> THEN 0
    ELSE 10 * DecValue(SubSeq(field, 1, Len(field) - 1))
         + (field[Len(field)][1] - 48)

\* C1: a Block of 1,000,000,000 bytes or more is refused with BlockTooLarge
\* (a failing sink's own error apart); the call never returns Ok.
C1_BlockTooLarge ==
    (Done /\ val.t = "Block" /\ SpanLen(val.runs) >= 1000000000)
    => /\ ret.st = "Err"
       /\ w.errAt = 0 => ret.e = "BlockTooLarge"

\* C2: a string holding a character that is not permitted is refused with
\* InvalidStringCharacter; the call never returns Ok and no '*' stands in
\* the output where the character would be.
C2_InvalidStringCharacter ==
    (Done /\ val.t = "Str" /\ ~AllPermitted(val.s))
    => /\ ret.st = "Err"
       /\ w.errAt = 0 => ret.e = "InvalidStringCharacter"
       /\ \A i \in 1..Len(val.s) :
              (~Permitted(val.s[i]) /\ Pos(val.s, i) <= Len(w.out))
              => w.out[Pos(val.s, i)] # <<42, 1>>

\* C3: a Discrete holding a character that is not permitted is refused with
\* InvalidMnemonic and nothing reaches the sink; a Discrete of permitted
\* characters reaches the sink as exactly its bytes.
C3_InvalidMnemonic ==
    (Done /\ val.t = "Discrete")
    => IF AllPermitted(val.s)
       THEN w.errAt = 0 => (ret = Ok /\ w.out = Lit(val.s))
       ELSE /\ ret.st = "Err"
            /\ w.errAt = 0 => ret.e = "InvalidMnemonic"
            /\ w.out = <<>>

\* C4: a finite f32 of magnitude above 9.9E37 is refused with
\* NumericOutOfRange, with debug assertions compiled in or not.
C4_NumericOutOfRange ==
    (Done /\ val.t = "F32" /\ val.k = "fin" /\ MagnitudeGtLimit(val))
    => /\ ret.st = "Err"
       /\ w.errAt = 0 => ret.e = "NumericOutOfRange"

\* C5: with a sink that does not fail, a NaN is written as NAN, +infinity
\* as INF and -infinity as NINF, and the call returns Ok.
C5_NonFiniteLiterals ==
    (Done /\ val.t = "F32" /\ val.k # "fin" /\ w.errAt = 0)
    => /\ ret = Ok
       /\ w.out = IF val.k = "nan" THEN Lit(<<78, 65, 78>>)
                  ELSE IF val.neg THEN Lit(<<78, 73, 78, 70>>)
                  ELSE Lit(<<73, 78, 70>>)

\* C6: a Block of L <= 999,999,999 bytes is written as '#', one digit d that
\* is the number of decimal digits of L, d digits that read as L, and the
\* L bytes of the block; nothing else.
C6_BlockFraming ==
    (Done /\ val.t = "Block" /\ SpanLen(val.runs) <= 999999999 /\ w.errAt = 0)
    => /\ ret = Ok
       /\ Len(w.out) >= 3
       /\ w.out[1] = <<35, 1>>
       /\ LET L == SpanLen(val.runs)
              d == w.out[2][1] - 48
          IN  /\ w.out[2][2] = 1
              /\ d \in 1..9
              /\ IF L = 0 THEN d = 1 ELSE Pow10(d - 1) <= L /\ L \div 10 < Pow10(d - 1)
              /\ Len(w.out) = 2 + d + Len(val.runs)
              /\ \A i \in 3..(2 + d) : w.out[i][1] \in 48..57 /\ w.out[i][2] = 1
              /\ DecValue(SubSeq(w.out, 3, 2 + d)) = L
              /\ SubSeq(w.out, 3 + d, Len(w.out)) = val.runs

C6_Witness ==
    /\ Done
    /\ ret = Ok
    /\ val.t = "Block"
    /\ SpanLen(val.runs) = 999999999
    /\ Len(val.runs) = 2
    /\ w.out[2] = <<57, 1>>

\* C7: a string of permitted characters is written between two double
\* quotes, each double-quote of it twice, every other character once and
\* unchanged, in order: length + 2 + (number of double-quotes) bytes.
C7_StrQuoting ==
    (Done /\ val.t = "Str" /\ AllPermitted(val.s) /\ w.errAt = 0)
    => /\ ret = Ok
       /\ Len(w.out) = Len(val.s) + 2
                       + Cardinality({j \in 1..Len(val.s) : val.s[j] = 34})
       /\ w.out[1] = <<34, 1>>
       /\ w.out[Len(w.out)] = <<34, 1>>
       /\ \A i \in 1..Len(val.s) :
              LET p == Pos(val.s, i)
              IN  IF val.s[i] = 34
                  THEN w.out[p] = <<34, 1>> /\ w.out[p + 1] = <<34, 1>>
                  ELSE w.out[p] = <<val.s[i], 1>>

C7_Witness ==
    /\ Done
    /\ ret = Ok
    /\ val.t = "Str"
    /\ AllPermitted(val.s)
    /\ Len(val.s) >= 2
    /\ val.s[1] = 34
    /\ val.s[Len(val.s)] # 34
    /\ Len(w.out) = Len(val.s) + 3

\* what a scalar writes into a sink of its own
ScalarWire(v) ==
    (CASE v.t = "Discrete" -> EncodeDiscrete(v, NewSink)
       [] v.t = "Str" -> EncodeStr(v, NewSink)
       [] v.t = "Block" -> EncodeBlock(v, NewSink)
       [] v.t = "F32" -> EncodeF32(v, NewSink)
       [] v.t = "DefaultValue" -> EncodeDefaultValue(v, NewSink)
       [] v.t = "Limit" -> EncodeLimit(v, NewSink)
       [] v.t = "Step" -> EncodeStep(v, NewSink)
       [] v.t = "Bool" -> EncodeBool(v, NewSink)
       [] v.t = "ScpiInt" -> EncodeScpiDisplay(v, NewSink)
       [] v.t = "Unit" -> EncodeUnit(v, NewSink)).s.out

\* element 1, then a comma and the element for each of the others
RECURSIVE Wire(_)
Wire(v) ==
    IF v.t # "Tuple" THEN ScalarWire(v)
    ELSE LET Joined[k \in 1..Len(v.es)] ==
                 IF k = 1 THEN Wire(v.es[1])
                 ELSE Joined[k - 1] \o <<<<44, 1>>>> \o Wire(v.es[k])
         IN  Joined[Len(v.es)]

Commas(span) == Cardinality({i \in 1..Len(span) : span[i] = <<44, 1>>})

RECURSIVE SumCommas(_)
SumCommas(spans) ==
    IF spans = <<>> THEN 0 ELSE Commas(Head(spans)) + SumCommas(Tail(spans))

\* C8: a composite of arity n is written as its element 0, then for each
\* following element, in index order, one comma and that element: n-1
\* separators, none leading, none trailing.
C8_TupleJoin ==
    (Done /\ val.t = "Tuple" /\ ret = Ok)
    => LET n == Len(val.es)
       IN  /\ n \in 2..4
           /\ w.out = Wire(val)
           /\ Commas(w.out)
              = (n - 1) + SumCommas([k \in 1..n |-> Wire(val.es[k])])

C8_Witness ==
    /\ Done
    /\ ret = Ok
    /\ val.t = "Tuple"
    /\ Len(val.es) = 4
    /\ val.es[1] # val.es[2]
    /\ \A k \in 1..4 : val.es[k].t \notin {"Unit", "Tuple"}
    /\ Commas(w.out) = 3

\* C9: once a write to the sink has failed, the sink is not written to
\* again, the error it gave is what every enclosing encode returns, and no
\* further element's encode is called.
C9_SinkErrorTerminal ==
    /\ [](w.errAt # 0 => (w.n = w.errAt /\ ret = Err(sinkErr)))
    /\ [][w.errAt # 0 => (w' = w /\ ret' = ret /\ Len(stack') < Len(stack))]_vars

C9_Witness ==
    /\ Done
    /\ w.errAt = 2
    /\ ret = Err(sinkErr)
    /\ val.t = "Tuple"
    /\ val.es[1].t = "Tuple"
    /\ val.es[2].t = "Str"
    /\ w.out = <<<<68, 1>>, <<69, 1>>, <<70, 1>>>>

Regroupings(v) ==
    { Tuple(<<Tuple(<<v.es[1], v.es[2]>>), v.es[3]>>),
      Tuple(<<v.es[1], Tuple(<<v.es[2], v.es[3]>>)>>) }

\* C10: ((a, b), c) and (a, (b, c)) are written as the same bytes as
\* (a, b, c).
C10_NestingFlattened ==
    (Done /\ ret = Ok /\ prev.set)
    => /\ val \in Regroupings(prev.val)
       /\ w.out = prev.out

C10_WitnessLeft ==
    /\ Done
    /\ ret = Ok
    /\ prev.set
    /\ val.es[1].t = "Tuple"
    /\ prev.val.es[1] # prev.val.es[2]
    /\ prev.val.es[2].t = "Str"
    /\ Len(w.out) > 4

====
